---- MODULE Spec2Model ----
(***************************************************************************)
(* A model of the ipcalc package: IPv4 address and subnet arithmetic.      *)
(*                                                                         *)
(* The package works on unsigned machine words of 32 bits.  The model      *)
(* keeps every operation of the code and its wrap-around arithmetic, over  *)
(* words of Width bits (the code is the case Width = 32), split into four  *)
(* octets of OctetBits bits (the code: 8).                                 *)
(*                                                                         *)
(* src/ipcalc.go holds two revisions of the package.  They share Subnet,   *)
(* Overlap, CidrToIpv4 and the text helpers line for line; they differ in  *)
(* the name of the address field (Host, later Addr: the model says Addr),  *)
(* in how Network and Broadcast are computed, and in the containment       *)
(* predicate (IsInNet, later the method IsIn).  Where they differ both     *)
(* are modelled.  src/main.go holds the earliest revision, which keeps     *)
(* Network and Broadcast in fields that setNetwork and setBroadcast fill   *)
(* by the formulas of HostNetwork and HostBroadcast, and the tests.        *)
(***************************************************************************)
EXTENDS Integers, Sequences, FiniteSets

\* Number of bits of a machine word (uint32 in the code).
Width == 4

\* Bits of one octet of the dotted form; four octets hold a word.
OctetBits == (Width + 3) \div 4

Pow2(n) == 2 ^ n

Modulus == Pow2(Width)

\* var TwoFiveFive uint32 = 4294967295: the word of all ones.
TwoFiveFive == Modulus - 1

Word == 0 .. TwoFiveFive

\* ----------------------------------------------------------------------
\* Go's operators on unsigned words.

\* a + b, wrapping.
Add32(a, b) == (a + b) % Modulus

\* a - b, wrapping.
Sub32(a, b) == (a - b + Modulus) % Modulus

\* a >> n: a shift by the word size or more yields 0.
ShiftR(a, n) == a \div Pow2(n)

\* a << n, wrapping: a shift by the word size or more yields 0.
ShiftL(a, n) == (a * Pow2(n)) % Modulus

RECURSIVE BitAnd(_, _)
\* a & b
BitAnd(a, b) ==
    IF a = 0 \/ b = 0 THEN 0
    ELSE 2 * BitAnd(a \div 2, b \div 2) + (IF a % 2 = 1 /\ b % 2 = 1 THEN 1 ELSE 0)

RECURSIVE BitOr(_, _)
\* a | b
BitOr(a, b) ==
    IF a = 0 THEN b
    ELSE IF b = 0 THEN a
    ELSE 2 * BitOr(a \div 2, b \div 2) + (IF a % 2 = 1 \/ b % 2 = 1 THEN 1 ELSE 0)

RECURSIVE BitXor(_, _)
\* a ^ b
BitXor(a, b) ==
    IF a = 0 THEN b
    ELSE IF b = 0 THEN a
    ELSE 2 * BitXor(a \div 2, b \div 2) + (IF a % 2 = b % 2 THEN 0 ELSE 1)

\* ^a (unary): the complement within the word.
BitNot(a) == TwoFiveFive - a

\* ----------------------------------------------------------------------
\* type Ipv4 struct { Addr uint32; Mask uint32 }

Ipv4 == [Addr : Word, Mask : Word]

MkIpv4(a, m) == [Addr |-> a, Mask |-> m]

\* The zero value of the struct (var res Ipv4).
ZeroIpv4 == MkIpv4(0, 0)

\* func (i *Ipv4) Network(): i.Mask & i.Addr
Network(i) == BitAnd(i.Mask, i.Addr)

\* func (i *Ipv4) Broadcast(): (^i.Mask) | i.Addr
Broadcast(i) == BitOr(BitNot(i.Mask), i.Addr)

\* The earlier revision: i.Mask + i.Host - (i.Mask | i.Host)
HostNetwork(i) == Sub32(Add32(i.Mask, i.Addr), BitOr(i.Mask, i.Addr))

\* The earlier revision: TwoFiveFive - i.Mask + i.Network()
HostBroadcast(i) == Add32(Sub32(TwoFiveFive, i.Mask), HostNetwork(i))

\* func IsInNet(n1, n2): (n1.Host >= n2.Host) && (n1.Broadcast() <= n2.Broadcast())
IsInNet(a, b) == (a.Addr >= b.Addr) /\ (HostBroadcast(a) <= HostBroadcast(b))

\* func (i *Ipv4) IsIn(n): (i.Addr >= n.Addr) && (i.Mask <= n.Mask)
IsIn(a, b) == (a.Addr >= b.Addr) /\ (a.Mask <= b.Mask)

\* The error values: nil and the messages of errors.New.
Nil == "nil"

ErrBackwards == "Argument order is backwards"

ErrInternal == "Internal Error"

ErrCidr == "Failed to convert CIDR string to bits"

ErrDots == "Dotted decimal string for a 32-bit number must contain 3 dots"

ErrOctet == "Dotted decimal string contains non-numbers"

ErrPrefix == "Invalid CIDR prefix"

VARIABLES
    op,       \* the exported function being called
    pc,       \* position of that call: "call", "subnet", "ret", "parse", "done"
    start,    \* Subnet's arguments
    stop,
    n1,       \* the Ipv4 arguments of Overlap, IsInNet, IsIn, ToCidr
    n2,
    stack,    \* the activations of Subnet, innermost last
    res,      \* the slice returned by the Subnet activation that returned last
    err,      \* the error returned with it
    out,      \* the slice Overlap returns
    verdict,  \* the boolean IsInNet / IsIn returns
    text,     \* the string ToCidr returns
    parsed    \* what CidrToIpv4 returns: [ip, err]

vars == <<op, pc, start, stop, n1, n2, stack, res, err, out, verdict, text, parsed>>

\* ----------------------------------------------------------------------
\* func Subnet(start uint32, stop uint32) ([]Ipv4, error)
\*
\* One activation of Subnet is one frame: its arguments, its local lo and
\* where it stands: "entry", "align" (the loop that shifts the mask) or
\* "wait" (inside its call of Subnet).

Frame(a, b) == [start |-> a, stop |-> b, lo |-> ZeroIpv4, at |-> "entry"]

Top == stack[Len(stack)]

Depth == Len(stack)

Running == pc = "subnet" /\ stack # <<>>

RECURSIVE CandidateBits(_, _)
\* for bits := uint(0); bits <= 32; bits++ { if sharedBits>>bits == 0 { ... break } }
\* the value of bits at the break.
CandidateBits(sharedBits, bits) ==
    IF bits > Width \/ ShiftR(sharedBits, bits) = 0 THEN bits
    ELSE CandidateBits(sharedBits, bits + 1)

\* lo.Mask = TwoFiveFive - (uint32(1)<<bits - 1), for sharedBits := start ^ stop
CandidateMask(a, b) ==
    LET bits == CandidateBits(BitXor(a, b), 0)
    IN  IF bits > Width THEN 0
        ELSE Sub32(TwoFiveFive, Sub32(ShiftL(1, bits), 1))

\* The mask shifted the other way: lo.Mask << 1.
NextMaskLeft(m) == ShiftL(m, 1)

\* uint32(1)<<31 + lo.Mask>>1
NextMask(m) == Add32(ShiftL(1, Width - 1), ShiftR(m, 1))

\* A loop test that lets only a single address through.
AlignedOnlyHost(lo) == lo.Mask = TwoFiveFive

\* No loop test: the candidate mask is taken as it is.
AlignedAlways(lo) == TRUE

\* if lo.Network() == lo.Addr { break }
Aligned(lo) == Network(lo) = lo.Addr

\* Subnet(lo.Broadcast()+1, stop): the first argument of the call.
NextStart(lo) == Add32(Broadcast(lo), 1)

\* Where the caller of the outermost Subnet goes on.
AfterReturn ==
    IF Depth > 1 THEN "subnet"
    ELSE IF op = "Subnet" THEN "done" ELSE "ret"

\* return r, e: the innermost activation ends.
Return(r, e) ==
    /\ stack' = SubSeq(stack, 1, Depth - 1)
    /\ res' = r
    /\ err' = e
    /\ pc' = AfterReturn

SetTop(f) == stack' = [stack EXCEPT ![Depth] = f]

\* The exported call Subnet(start, stop) begins.
CallSubnet ==
    /\ op = "Subnet" /\ pc = "call"
    /\ stack' = <<Frame(start, stop)>>
    /\ pc' = "subnet"
    /\ UNCHANGED <<op, start, stop, n1, n2, res, err, out, verdict, text, parsed>>

\* if start == stop { return []Ipv4{{Addr: start, Mask: TwoFiveFive}}, nil }
SubnetSingle ==
    /\ Running /\ Top.at = "entry"
    /\ Top.start = Top.stop
    /\ Return(<<MkIpv4(Top.start, TwoFiveFive)>>, Nil)
    /\ UNCHANGED <<op, start, stop, n1, n2, out, verdict, text, parsed>>

\* if start > stop { return []Ipv4{}, errors.New("Argument order is backwards") }
SubnetBackwards ==
    /\ Running /\ Top.at = "entry"
    /\ Top.start > Top.stop
    /\ Return(<<>>, ErrBackwards)
    /\ UNCHANGED <<op, start, stop, n1, n2, out, verdict, text, parsed>>

\* lo.Addr = start, and the loop over bits that sets lo.Mask.
SubnetCandidate ==
    /\ Running /\ Top.at = "entry"
    /\ Top.start < Top.stop
    /\ SetTop([Top EXCEPT !.lo = MkIpv4(Top.start, CandidateMask(Top.start, Top.stop)),
                          !.at = "align"])
    /\ UNCHANGED <<op, pc, start, stop, n1, n2, res, err, out, verdict, text, parsed>>

\* One turn of for { if lo.Network() == lo.Addr { break }; lo.Mask = ... }
SubnetAlign ==
    /\ Running /\ Top.at = "align"
    /\ ~Aligned(Top.lo)
    /\ SetTop([Top EXCEPT !.lo.Mask = NextMask(Top.lo.Mask)])
    /\ UNCHANGED <<op, pc, start, stop, n1, n2, res, err, out, verdict, text, parsed>>

\* if lo.Broadcast() == stop { return res, nil }
SubnetExact ==
    /\ Running /\ Top.at = "align"
    /\ Aligned(Top.lo)
    /\ Broadcast(Top.lo) = Top.stop
    /\ Return(<<Top.lo>>, Nil)
    /\ UNCHANGED <<op, start, stop, n1, n2, out, verdict, text, parsed>>

\* if lo.Broadcast() > stop { return res, errors.New("Internal Error") }
SubnetOvershoot ==
    /\ Running /\ Top.at = "align"
    /\ Aligned(Top.lo)
    /\ Broadcast(Top.lo) > Top.stop
    /\ Return(<<Top.lo>>, ErrInternal)
    /\ UNCHANGED <<op, start, stop, n1, n2, out, verdict, text, parsed>>

\* next, err := Subnet(lo.Broadcast()+1, stop): the call.
SubnetRecurse ==
    /\ Running /\ Top.at = "align"
    /\ Aligned(Top.lo)
    /\ Broadcast(Top.lo) < Top.stop
    /\ stack' = Append([stack EXCEPT ![Depth].at = "wait"],
                       Frame(NextStart(Top.lo), Top.stop))
    /\ UNCHANGED <<op, pc, start, stop, n1, n2, res, err, out, verdict, text, parsed>>

\* The call has returned: if err != nil { return res, err };
\* res = append(res, next...); return res, nil
SubnetResume ==
    /\ Running /\ Top.at = "wait"
    /\ Return(IF err # Nil THEN <<Top.lo>> ELSE <<Top.lo>> \o res, err)
    /\ UNCHANGED <<op, start, stop, n1, n2, out, verdict, text, parsed>>

\* Before any call: nothing has been returned.
Idle ==
    /\ pc = "call"
    /\ stack = <<>>
    /\ res = <<>>
    /\ err = Nil
    /\ out = <<>>
    /\ verdict = FALSE
    /\ text = <<>>
    /\ parsed = [ip |-> ZeroIpv4, err |-> Nil]

\* A call Subnet(start, stop) with any two words.
SubnetInit ==
    /\ op = "Subnet"
    /\ start \in Word
    /\ stop \in Word
    /\ n1 = ZeroIpv4
    /\ n2 = ZeroIpv4
    /\ Idle

SubnetNext ==
    \/ CallSubnet
    \/ SubnetSingle
    \/ SubnetBackwards
    \/ SubnetCandidate
    \/ SubnetAlign
    \/ SubnetExact
    \/ SubnetOvershoot
    \/ SubnetRecurse
    \/ SubnetResume

\* The calls of Subnet.  A function that has been called runs on: the
\* program is sequential and nothing else is scheduled.
SubnetSpec == SubnetInit /\ [][SubnetNext]_vars /\ WF_vars(SubnetNext)

\* ----------------------------------------------------------------------
\* func Overlap(n1 Ipv4, n2 Ipv4) []Ipv4

\* The switch that orders n1 and n2: lo.
OverlapLo(a, b) ==
    IF a.Addr < b.Addr THEN a
    ELSE IF a.Addr > b.Addr THEN b
    ELSE IF a.Mask > b.Mask THEN a
    ELSE b

\* The switch that orders n1 and n2: hi.
OverlapHi(a, b) ==
    IF a.Addr < b.Addr THEN b
    ELSE IF a.Addr > b.Addr THEN a
    ELSE IF a.Mask > b.Mask THEN b
    ELSE a

\* start = hi.Addr
OverlapStart(a, b) == OverlapHi(a, b).Addr

\* if lo.Broadcast() < hi.Broadcast() { stop = lo.Broadcast() } else { stop = hi.Broadcast() }
OverlapStop(a, b) ==
    IF Broadcast(OverlapLo(a, b)) < Broadcast(OverlapHi(a, b))
    THEN Broadcast(OverlapLo(a, b))
    ELSE Broadcast(OverlapHi(a, b))

\* (stop < start) || (start > lo.Broadcast())
OverlapNone(a, b) ==
    \/ OverlapStop(a, b) < OverlapStart(a, b)
    \/ OverlapStart(a, b) > Broadcast(OverlapLo(a, b))

\* case n1 == n2: return []Ipv4{n1}
OverlapSame ==
    /\ op = "Overlap" /\ pc = "call"
    /\ n1 = n2
    /\ out' = <<n1>>
    /\ pc' = "done"
    /\ UNCHANGED <<op, start, stop, n1, n2, stack, res, err, verdict, text, parsed>>

\* if (stop < start) || (start > lo.Broadcast()) { return []Ipv4{} }
OverlapEmpty ==
    /\ op = "Overlap" /\ pc = "call"
    /\ n1 # n2
    /\ OverlapNone(n1, n2)
    /\ out' = <<>>
    /\ pc' = "done"
    /\ UNCHANGED <<op, start, stop, n1, n2, stack, res, err, verdict, text, parsed>>

\* res, err := Subnet(start, stop): the call.
OverlapCall ==
    /\ op = "Overlap" /\ pc = "call"
    /\ n1 # n2
    /\ ~OverlapNone(n1, n2)
    /\ stack' = <<Frame(OverlapStart(n1, n2), OverlapStop(n1, n2))>>
    /\ pc' = "subnet"
    /\ UNCHANGED <<op, start, stop, n1, n2, res, err, out, verdict, text, parsed>>

\* The call has returned: if err != nil { return []Ipv4{} }; return res
OverlapReturn ==
    /\ op = "Overlap" /\ pc = "ret"
    /\ out' = IF err # Nil THEN <<>> ELSE res
    /\ pc' = "done"
    /\ UNCHANGED <<op, start, stop, n1, n2, stack, res, err, verdict, text, parsed>>

\* A call Overlap(n1, n2) with any two Ipv4 values.
OverlapInit ==
    /\ op = "Overlap"
    /\ start = 0
    /\ stop = 0
    /\ n1 \in Ipv4
    /\ n2 \in Ipv4
    /\ Idle

\* ----------------------------------------------------------------------
\* The containment predicates.

\* The call IsInNet(n1, n2).
CallIsInNet ==
    /\ op = "IsInNet" /\ pc = "call"
    /\ verdict' = IsInNet(n1, n2)
    /\ pc' = "done"
    /\ UNCHANGED <<op, start, stop, n1, n2, stack, res, err, out, text, parsed>>

\* The call n1.IsIn(n2).
CallIsIn ==
    /\ op = "IsIn" /\ pc = "call"
    /\ verdict' = IsIn(n1, n2)
    /\ pc' = "done"
    /\ UNCHANGED <<op, start, stop, n1, n2, stack, res, err, out, text, parsed>>

\* A call of either predicate with any two Ipv4 values.
ContainInit ==
    /\ op \in {"IsInNet", "IsIn"}
    /\ start = 0
    /\ stop = 0
    /\ n1 \in Ipv4
    /\ n2 \in Ipv4
    /\ Idle

ContainNext ==
    \/ CallIsInNet
    \/ CallIsIn

ContainSpec == ContainInit /\ [][ContainNext]_vars

\* ----------------------------------------------------------------------
\* The text forms.  A string is the sequence of its characters.

DigitChars == <<"0", "1", "2", "3", "4", "5", "6", "7", "8", "9">>

IsDigit(c) == \E d \in 1 .. 10 : DigitChars[d] = c

DigitValue(c) == (CHOOSE d \in 1 .. 10 : DigitChars[d] = c) - 1

RECURSIVE Itoa(_)
\* strconv.Itoa(n), n >= 0: the decimal digits of n.
Itoa(n) ==
    IF n < 10 THEN <<DigitChars[n + 1]>>
    ELSE Itoa(n \div 10) \o <<DigitChars[(n % 10) + 1]>>

RECURSIVE AtoiValue(_)
AtoiValue(s) ==
    IF s = <<>> THEN 0
    ELSE 10 * AtoiValue(SubSeq(s, 1, Len(s) - 1)) + DigitValue(s[Len(s)])

\* strconv.Atoi(s) on unsigned decimal text: [n, ok]; it fails on the empty
\* string and on any character that is no digit.
Atoi(s) ==
    IF s # <<>> /\ \A k \in 1 .. Len(s) : IsDigit(s[k])
    THEN [n |-> AtoiValue(s), ok |-> TRUE]
    ELSE [n |-> 0, ok |-> FALSE]

RECURSIVE SplitFrom(_, _, _, _)
SplitFrom(s, sep, k, cur) ==
    IF k > Len(s) THEN <<cur>>
    ELSE IF s[k] = sep THEN <<cur>> \o SplitFrom(s, sep, k + 1, <<>>)
    ELSE SplitFrom(s, sep, k + 1, Append(cur, s[k]))

\* strings.Split(s, sep) for a separator of one character.
Split(s, sep) == SplitFrom(s, sep, 1, <<>>)

\* uint8(x): the low octet.
Octet(x) == x % Pow2(OctetBits)

\* func hostToString(n): the four octets of n, high first, joined by dots.
hostToString(n) ==
    Itoa(Octet(ShiftR(n, 3 * OctetBits))) \o <<".">> \o
    Itoa(Octet(ShiftR(n, 2 * OctetBits))) \o <<".">> \o
    Itoa(Octet(ShiftR(n, OctetBits))) \o <<".">> \o
    Itoa(Octet(n))

RECURSIVE maskToStringFrom(_, _)
\* for i := 0; i <= 32; i++ { if m == TwoFiveFive { return strconv.Itoa(32 - i) };
\*   m = uint32(1)<<31 + m>>1 }; return "0"
maskToStringFrom(m, i) ==
    IF i > Width THEN <<"0">>
    ELSE IF m = TwoFiveFive THEN Itoa(Width - i)
    ELSE maskToStringFrom(NextMask(m), i + 1)

\* func maskToString(m uint32) string
maskToString(m) == maskToStringFrom(m, 0)

\* func (i *Ipv4) ToCidr() string
ToCidr(i) == hostToString(i.Addr) \o <<"/">> \o maskToString(i.Mask)

\* (n < 0) || (n > 255), with err == nil
OctetOk(s) == Atoi(s).ok /\ Atoi(s).n <= Pow2(OctetBits) - 1

\* func DottedDecimalToUint32(s string) (uint32, error): [val, err]
DottedDecimalToUint32(s) ==
    LET octets == Split(s, ".")
    IN  IF Len(octets) # 4 THEN [val |-> 0, err |-> ErrDots]
        ELSE IF \E k \in 1 .. 4 : ~OctetOk(octets[k]) THEN [val |-> 0, err |-> ErrOctet]
        ELSE [val |-> BitOr(BitOr(ShiftL(Atoi(octets[1]).n, 3 * OctetBits),
                                  ShiftL(Atoi(octets[2]).n, 2 * OctetBits)),
                            BitOr(ShiftL(Atoi(octets[3]).n, OctetBits),
                                  Atoi(octets[4]).n)),
              err |-> Nil]

\* The mask without the "- 1": TwoFiveFive - uint32(1<<(32-b)).
stringToMaskNoBorrow(s) ==
    IF ~Atoi(s).ok \/ Atoi(s).n > Width THEN [val |-> 0, err |-> ErrPrefix]
    ELSE [val |-> Sub32(TwoFiveFive, ShiftL(1, Width - Atoi(s).n)), err |-> Nil]

\* func stringToMask(s string) (uint32, error): [val, err]
\* b := byte(n); return TwoFiveFive - uint32((1<<(32-b))-1), nil
stringToMask(s) ==
    IF ~Atoi(s).ok \/ Atoi(s).n > Width THEN [val |-> 0, err |-> ErrPrefix]
    ELSE [val |-> Sub32(TwoFiveFive, Sub32(ShiftL(1, Width - Atoi(s).n), 1)),
          err |-> Nil]

\* func CidrToIpv4(c string) (Ipv4, error): [ip, err]
CidrToIpv4(c) ==
    LET cidrArr == Split(c, "/")
        h == DottedDecimalToUint32(cidrArr[1])
        m == stringToMask(cidrArr[2])
    IN  IF h.err # Nil THEN [ip |-> ZeroIpv4, err |-> ErrCidr]
        ELSE IF Len(cidrArr) = 2
             THEN IF m.err # Nil
                  THEN [ip |-> MkIpv4(h.val, 0), err |-> ErrCidr]
                  ELSE [ip |-> MkIpv4(h.val, m.val), err |-> Nil]
             ELSE [ip |-> MkIpv4(h.val, TwoFiveFive), err |-> Nil]

\* The call n1.ToCidr().
CallToCidr ==
    /\ op = "Conv" /\ pc = "call"
    /\ text' = ToCidr(n1)
    /\ pc' = "parse"
    /\ UNCHANGED <<op, start, stop, n1, n2, stack, res, err, out, verdict, parsed>>

\* The call CidrToIpv4(text) on the string ToCidr returned.
CallCidrToIpv4 ==
    /\ op = "Conv" /\ pc = "parse"
    /\ parsed' = CidrToIpv4(text)
    /\ pc' = "done"
    /\ UNCHANGED <<op, start, stop, n1, n2, stack, res, err, out, verdict, text>>

\* Any Ipv4 value, rendered and parsed back.
ConvInit ==
    /\ op = "Conv"
    /\ start = 0
    /\ stop = 0
    /\ n1 \in Ipv4
    /\ n2 = ZeroIpv4
    /\ Idle

ConvNext ==
    \/ CallToCidr
    \/ CallCidrToIpv4

ConvSpec == ConvInit /\ [][ConvNext]_vars

\* ----------------------------------------------------------------------
\* The whole package: any one call of an exported function.

Init == SubnetInit \/ OverlapInit \/ ContainInit \/ ConvInit

Next ==
    \/ CallSubnet
    \/ SubnetSingle
    \/ SubnetBackwards
    \/ SubnetCandidate
    \/ SubnetAlign
    \/ SubnetExact
    \/ SubnetOvershoot
    \/ SubnetRecurse
    \/ SubnetResume
    \/ OverlapSame
    \/ OverlapEmpty
    \/ OverlapCall
    \/ OverlapReturn
    \/ CallIsInNet
    \/ CallIsIn
    \/ CallToCidr
    \/ CallCidrToIpv4

Spec == Init /\ [][Next]_vars

\* ----------------------------------------------------------------------
\* What the properties speak of.

\* The addresses an Ipv4 value covers: from Network() to Broadcast().
Interval(i) == Network(i) .. Broadcast(i)

\* The contiguous masks: prefix lengths Width down to 0.
PrefixMasks == {TwoFiveFive - (Pow2(k) - 1) : k \in 0 .. Width}

\* A block in CIDR form: a contiguous mask and an address that is its
\* own network address.
CidrAligned(b) == b.Mask \in PrefixMasks /\ Network(b) = b.Addr

\* The addresses a sequence of blocks covers.
Covered(blocks) == UNION {Interval(blocks[k]) : k \in 1 .. Len(blocks)}

\* The number of addresses of the block of a contiguous mask.
Span(m) == BitNot(m) + 1

RECURSIVE MinBlocks(_, _)
\* The least number of CIDR-aligned blocks whose union is a .. b.  The block
\* that holds a must begin at a, being aligned and inside the range.
MinBlocks(a, b) ==
    IF a > b THEN 0
    ELSE LET fits == {k \in 0 .. Width : a % Pow2(k) = 0 /\ a + Pow2(k) - 1 <= b}
             counts == {1 + MinBlocks(a + Pow2(k), b) : k \in fits}
         IN  CHOOSE c \in counts : \A d \in counts : c <= d

SubnetDone == op = "Subnet" /\ pc = "done"

OverlapDone == op = "Overlap" /\ pc = "done"

ContainDone == op \in {"IsInNet", "IsIn"} /\ pc = "done"

ConvDone == op = "Conv" /\ pc = "done"

\* One turn of Subnet's alignment loop in the innermost activation.
AlignTurn ==
    /\ Running /\ Top.at = "align"
    /\ Running' /\ Depth' = Depth /\ Top'.at = "align"
    /\ Top'.lo # Top.lo

\* C1: for start <= stop, Subnet returns without error blocks in ascending
\* order of address, pairwise non-overlapping, whose union is exactly the
\* range start .. stop.
C1_ExactCover ==
    (SubnetDone /\ start <= stop) =>
        /\ err = Nil
        /\ \A j, k \in 1 .. Len(res) :
              j < k => /\ res[j].Addr < res[k].Addr
                       /\ Interval(res[j]) \cap Interval(res[k]) = {}
        /\ Covered(res) = start .. stop

\* C2: for start <= stop, the number of blocks Subnet returns is the least
\* number of CIDR-aligned blocks whose union is start .. stop.
C2_MinimalCount ==
    (SubnetDone /\ start <= stop) => Len(res) = MinBlocks(start, stop)

\* Both arguments carry contiguous masks, as every value CidrToIpv4 yields.
ContiguousArgs == n1.Mask \in PrefixMasks /\ n2.Mask \in PrefixMasks

\* C3: the blocks Overlap returns cover exactly the intersection of the
\* intervals of n1 and n2, and Overlap returns the empty sequence exactly
\* when the intervals are disjoint.  Stated for arguments with contiguous
\* masks, which are among the Ipv4 values it is to hold for.
C3_OverlapIsIntersection ==
    (OverlapDone /\ ContiguousArgs) =>
        /\ Covered(out) = Interval(n1) \cap Interval(n2)
        /\ (out = <<>>) <=> (Interval(n1) \cap Interval(n2) = {})

\* C4: the containment predicate (IsInNet, IsIn) is true exactly when every
\* address of the interval of n1 lies in the interval of n2.  Stated for
\* arguments with contiguous masks.
C4_ContainmentIsInterval ==
    (ContainDone /\ ContiguousArgs) =>
        (verdict <=> (Interval(n1) \subseteq Interval(n2)))

\* The predicate called, with its arguments exchanged.
Converse == IF op = "IsInNet" THEN IsInNet(n2, n1) ELSE IsIn(n2, n1)

\* C5: the containment predicate is antisymmetric: when n1 is in n2 and n2
\* is in n1, both cover the same interval.  Stated for arguments with
\* contiguous masks.
C5_Antisymmetric ==
    (ContainDone /\ ContiguousArgs /\ verdict /\ Converse) =>
        /\ Network(n1) = Network(n2)
        /\ Broadcast(n1) = Broadcast(n2)

\* C6: an Ipv4 value with a contiguous mask, rendered by ToCidr and parsed
\* by CidrToIpv4, comes back with the same address and mask and no error.
C6_RoundTrip ==
    (ConvDone /\ n1.Mask \in PrefixMasks) =>
        /\ parsed.err = Nil
        /\ parsed.ip = n1

\* A round trip of a value whose address is not its network address, with
\* a prefix length strictly between 0 and Width and octets that differ.
C6_Witness ==
    /\ ConvDone
    /\ n1.Mask \in PrefixMasks \ {0, TwoFiveFive}
    /\ Network(n1) # n1.Addr
    /\ Octet(n1.Addr) # Octet(ShiftR(n1.Addr, OctetBits))
    /\ parsed.ip = n1

\* C7: the block Subnet chooses never reaches past stop, in any activation,
\* so Subnet never returns "Internal Error".
C7_NoOvershoot ==
    /\ (Running /\ Top.at = "align" /\ Aligned(Top.lo)) =>
           Broadcast(Top.lo) <= Top.stop
    /\ err # ErrInternal

\* C8 as stated: every turn of the alignment loop widens the block (its
\* span of addresses never shrinks), and the loop ends because the mask 0
\* is aligned to the address, whatever it is.
C8_LoopWidens ==
    /\ [][AlignTurn => Span(Top'.lo.Mask) >= Span(Top.lo.Mask)]_vars
    /\ []((Running /\ Top.at = "align" /\ Top.lo.Mask = 0) => Aligned(Top.lo))

\* C8 as amended: every turn of the alignment loop narrows the block, to
\* half its span, by one more bit of mask; the mask of all ones is aligned
\* to any address, so the loop ends, and it does end.
C8_LoopNarrows ==
    /\ [][AlignTurn => /\ Top'.lo.Mask > Top.lo.Mask
                       /\ 2 * Span(Top'.lo.Mask) = Span(Top.lo.Mask)
                       /\ Top'.lo.Addr = Top.lo.Addr]_vars
    /\ []((Running /\ Top.at = "align" /\ Top.lo.Mask = TwoFiveFive) => Aligned(Top.lo))
    /\ []((Running /\ Top.at = "align") => <>(~Running \/ Top.at # "align"))

\* The loop has turned, and has stopped at a mask short of all ones.
C8_Witness ==
    /\ Running /\ Top.at = "align"
    /\ Top.lo.Mask > CandidateMask(Top.start, Top.stop)
    /\ Top.lo.Mask < TwoFiveFive
    /\ Aligned(Top.lo)

\* The bound on the nesting of Subnet: one more than the bits of a word.
MaxDepth == Width + 1

\* C9: Subnet terminates, and its activations never nest deeper than
\* MaxDepth, the outermost call counted.
C9_BoundedDepth ==
    /\ [](Depth <= MaxDepth)
    /\ <>(pc = "done")

\* Subnet nested one activation for every bit of the word.
C9_Witness == Running /\ Depth = Width

\* C10: when Subnet returns no error, every block is CIDR-aligned, the first
\* begins at start, each next one begins right after the broadcast address
\* of the one before it (which is not the last word), and the last one ends
\* at stop.
C10_SuccessIsExactChain ==
    (SubnetDone /\ err = Nil) =>
        /\ Len(res) >= 1
        /\ \A k \in 1 .. Len(res) : CidrAligned(res[k])
        /\ res[1].Addr = start
        /\ \A k \in 1 .. Len(res) - 1 :
              /\ Broadcast(res[k]) < TwoFiveFive
              /\ res[k + 1].Addr = Broadcast(res[k]) + 1
        /\ Broadcast(res[Len(res)]) = stop

\* Subnet returned three blocks or more without error.
C10_Witness == SubnetDone /\ err = Nil /\ Len(res) >= 3

====
